---- MODULE Spec2Model ----
(***************************************************************************)
(* A model of the Forth interpreter of src/forth/src/forth.rs and of its   *)
(* entry point interpret() of src/forth/src/lib.rs.                        *)
(*                                                                         *)
(* Text is a sequence of one-character strings.  Word-table indices and    *)
(* WordIndex tokens are 0-based as in the source; the entry of index i is  *)
(* words[i + 1].                                                           *)
(***************************************************************************)
EXTENDS Integers, Sequences, FiniteSets, TLC

VARIABLES
    stack,            \* Forth::stack, bottom first
    tokens,           \* Forth::tokens, front first
    words,            \* Forth::words
    pc,               \* "new" (no eval yet) | "running" (inside eval's loop) |
                      \* "idle" (eval has returned) | "aborted" (panic)
    result,           \* what the last eval returned: "none" | "Ok" | an Error
    overflow_checks,  \* whether the build traps on + - * overflow (debug) or wraps (release)
    input,            \* history: the text the current eval was called with
    pre,              \* history: the session as the last interp step found it (valid),
                      \* or, before a call's first step, as the call found it
    evals             \* history: the number of eval calls made on the session

vars == <<stack, tokens, words, pc, result, overflow_checks, input, pre, evals>>

\* ------------------------------------------------------------------ values

\* i32::MAX and i32::MIN of `pub type Value = i32`.
MaxValue == 2147483647

MinValue == -MaxValue - 1

Errors == {"DivisionByZero", "StackUnderflow", "UnknownWord", "InvalidWord"}

\* a + b leaves the i32 range (evaluated without leaving it).
AddOverflows(a, b) ==
    \/ b > 0 /\ a > MaxValue - b
    \/ b < 0 /\ a < MinValue - b

\* a + b modulo 2^32, as a signed 32-bit value.
WrappingAdd(a, b) ==
    IF b > 0 /\ a > MaxValue - b THEN (((a - MaxValue) - 1) + b) - MaxValue - 1
    ELSE IF b < 0 /\ a < MinValue - b THEN (((a + MaxValue) + 1) + b) + MaxValue + 1
    ELSE a + b

SubOverflows(a, b) ==
    \/ b < 0 /\ a > MaxValue + b
    \/ b > 0 /\ a < MinValue + b

WrappingSub(a, b) ==
    IF b = MinValue THEN WrappingAdd(a, MinValue) ELSE WrappingAdd(a, -b)

Abs(a) == IF a < 0 THEN -a ELSE a

\* a * b leaves the i32 range (evaluated without leaving it).
MulOverflows(a, b) ==
    IF a = 0 \/ b = 0 THEN FALSE
    ELSE IF a = MinValue THEN b # 1
    ELSE IF b = MinValue THEN a # 1
    ELSE IF Abs(a) = 1 \/ Abs(b) = 1 THEN FALSE
    ELSE IF (a > 0) = (b > 0) THEN Abs(a) > MaxValue \div Abs(b)
    ELSE Abs(a) > (MaxValue \div Abs(b))
                    + (IF MaxValue % Abs(b) = Abs(b) - 1 THEN 1 ELSE 0)

\* Byte k (0 the lowest) of the two's complement representation of a.
Byte(a, k) ==
    (a \div (CASE k = 0 -> 1 [] k = 1 -> 256 [] k = 2 -> 65536 [] k = 3 -> 16777216)) % 256

\* a * b modulo 2^32, as a signed 32-bit value: the product byte by byte, the
\* carries above the fourth byte dropped.
WrappingMul(a, b) ==
    LET t0 == Byte(a, 0) * Byte(b, 0)
        t1 == Byte(a, 0) * Byte(b, 1) + Byte(a, 1) * Byte(b, 0) + (t0 \div 256)
        t2 == Byte(a, 0) * Byte(b, 2) + Byte(a, 1) * Byte(b, 1) + Byte(a, 2) * Byte(b, 0)
                + (t1 \div 256)
        t3 == Byte(a, 0) * Byte(b, 3) + Byte(a, 1) * Byte(b, 2) + Byte(a, 2) * Byte(b, 1)
                + Byte(a, 3) * Byte(b, 0) + (t2 \div 256)
        top == IF t3 % 256 >= 128 THEN (t3 % 256) - 256 ELSE t3 % 256
    IN  top * 16777216 + (t2 % 256) * 65536 + (t1 % 256) * 256 + (t0 % 256)

\* i32 division, which truncates toward zero; b # 0 and not MinValue / -1.
TruncDiv(a, b) ==
    IF a = MinValue
    THEN (IF b = MinValue THEN 1
          ELSE IF b = 1 THEN MinValue
          ELSE IF b > 0 THEN -((MaxValue \div b) + (IF MaxValue % b = b - 1 THEN 1 ELSE 0))
          ELSE (MaxValue \div (-b)) + (IF MaxValue % (-b) = (-b) - 1 THEN 1 ELSE 0))
    ELSE IF b = MinValue THEN 0
    ELSE IF (a < 0) = (b < 0) THEN Abs(a) \div Abs(b)
    ELSE -(Abs(a) \div Abs(b))

\* ------------------------------------------------------------------ tokens

Word(name) == [kind |-> "Word", name |-> name]

WordIndex(index) == [kind |-> "WordIndex", index |-> index]

Number(value) == [kind |-> "Number", value |-> value]

\* ------------------------------------------------------------------ parse

Digits == {"0", "1", "2", "3", "4", "5", "6", "7", "8", "9"}

DigitVal(c) ==
    CASE c = "0" -> 0 [] c = "1" -> 1 [] c = "2" -> 2 [] c = "3" -> 3
      [] c = "4" -> 4 [] c = "5" -> 5 [] c = "6" -> 6 [] c = "7" -> 7
      [] c = "8" -> 8 [] c = "9" -> 9

\* char::is_whitespace() || char::is_ascii_control(), on the characters used.
IsSeparator(c) == c \in {" ", "\t", "\n", "\r"}

\* char-wise str::to_uppercase() on the characters used.
UpperChar(c) ==
    CASE c = "a" -> "A" [] c = "b" -> "B" [] c = "d" -> "D" [] c = "e" -> "E"
      [] c = "o" -> "O" [] c = "p" -> "P" [] c = "r" -> "R" [] c = "s" -> "S"
      [] c = "u" -> "U" [] c = "v" -> "V" [] c = "w" -> "W"
      [] OTHER -> c

ToUppercase(s) == [i \in 1..Len(s) |-> UpperChar(s[i])]

NoInt == [ok |-> FALSE, v |-> 0]

RECURSIVE ParseDigits(_, _, _)

\* The digit loop saturating at the end of the range instead of failing.
ParseDigits_saturates(s, acc, positive) ==
    IF s = <<>> THEN [ok |-> TRUE, v |-> acc]
    ELSE IF Head(s) \notin Digits THEN NoInt
    ELSE LET d == DigitVal(Head(s))
         IN  IF positive
             THEN IF acc > (MaxValue - d) \div 10 THEN [ok |-> TRUE, v |-> MaxValue]
                  ELSE ParseDigits(Tail(s), acc * 10 + d, positive)
             ELSE IF -acc > (IF d = 0 THEN MaxValue \div 10
                             ELSE (MaxValue - (d - 1)) \div 10)
                  THEN [ok |-> TRUE, v |-> MinValue]
                  ELSE ParseDigits(Tail(s), acc * 10 - d, positive)

\* The digit loop of i32::from_str: the value is accumulated with the sign
\* applied, and a step that leaves the i32 range is an error.
ParseDigits(s, acc, positive) ==
    IF s = <<>> THEN [ok |-> TRUE, v |-> acc]
    ELSE IF Head(s) \notin Digits THEN NoInt
    ELSE LET d == DigitVal(Head(s))
         IN  IF positive
             THEN IF acc > (MaxValue - d) \div 10 THEN NoInt
                  ELSE ParseDigits(Tail(s), acc * 10 + d, positive)
             ELSE IF -acc > (IF d = 0 THEN MaxValue \div 10
                             ELSE (MaxValue - (d - 1)) \div 10)
                  THEN NoInt
                  ELSE ParseDigits(Tail(s), acc * 10 - d, positive)

\* s.parse::<Value>(): an optional sign, then at least one digit.
ParseValue(s) ==
    IF s = <<>> THEN NoInt
    ELSE IF Head(s) \in {"+", "-"}
         THEN IF Len(s) = 1 THEN NoInt
              ELSE ParseDigits(Tail(s), 0, Head(s) = "+")
         ELSE ParseDigits(s, 0, TRUE)

RECURSIVE Split(_, _)
\* s.split(separator).filter(|k| !k.is_empty()): cur is the fragment being read.
Split(s, cur) ==
    IF s = <<>> THEN (IF cur = <<>> THEN <<>> ELSE <<cur>>)
    ELSE IF IsSeparator(Head(s))
         THEN (IF cur = <<>> THEN <<>> ELSE <<cur>>) \o Split(Tail(s), <<>>)
         ELSE Split(Tail(s), Append(cur, Head(s)))

\* The token of one fragment.
Classify(frag) ==
    LET p == ParseValue(frag)
    IN  IF p.ok THEN Number(p.v) ELSE Word(ToUppercase(frag))

parse(s) ==
    LET items == Split(s, <<>>)
    IN  [i \in 1..Len(items) |-> Classify(items[i])]

\* ------------------------------------------------------------------ words

\* The names of the built-in words.
Plus == <<"+">>

Minus == <<"-">>

Star == <<"*">>

Slash == <<"/">>

Dup == <<"D", "U", "P">>

Drop == <<"D", "R", "O", "P">>

Swap == <<"S", "W", "A", "P">>

Over == <<"O", "V", "E", "R">>

Colon == <<":">>

Semicolon == <<";">>

\* Word::new
WordNew(name, exec) == [name |-> name, data |-> <<>>, exec |-> exec]

\* Word::new_compiled
WordNewCompiled(name, word_tokens) == [name |-> name, data |-> word_tokens, exec |-> "do_exec"]

\* The word table Forth::new() builds.
NewWords ==
    << WordNew(Plus, "do_arithmetic"), WordNew(Minus, "do_arithmetic"),
       WordNew(Star, "do_arithmetic"), WordNew(Slash, "do_arithmetic"),
       WordNew(Dup, "do_dup"), WordNew(Drop, "do_drop"),
       WordNew(Swap, "do_swap"), WordNew(Over, "do_over"),
       WordNew(Colon, "do_nop") >>

\* ------------------------------------------------------------------ executors
\* An executor returns [res, stack, tokens]: res is "Ok", an Error, or "panic"
\* when the call aborts the process.

Ret(res, st, tk) == [res |-> res, stack |-> st, tokens |-> tk]

\* Vec::pop: the vector without its last element.
Pop(st) == SubSeq(st, 1, Len(st) - 1)

do_nop(word, st, tk) == Ret("Ok", st, tk)

\* v1 OP v2 for + - *: the exact value, or on overflow a panic in a build with
\* overflow checks and the wrapped value in a build without.
Checked(overflows, exact, wrapped, st, tk) ==
    IF ~overflows THEN Ret("Ok", Append(st, exact), tk)
    ELSE IF overflow_checks THEN Ret("panic", st, tk)
    ELSE Ret("Ok", Append(st, wrapped), tk)

\* do_arithmetic dividing before it looks at the divisor: a zero divisor panics.
do_arithmetic_divides_first(word, st, tk) ==
    IF Len(st) < 2 THEN Ret("StackUnderflow", st, tk)
    ELSE LET v2 == st[Len(st)]
             v1 == st[Len(st) - 1]
             rest == Pop(Pop(st))
         IN  CASE word.name = Plus ->
                    Checked(AddOverflows(v1, v2),
                            IF AddOverflows(v1, v2) THEN 0 ELSE v1 + v2,
                            WrappingAdd(v1, v2), rest, tk)
               [] word.name = Minus ->
                    Checked(SubOverflows(v1, v2),
                            IF SubOverflows(v1, v2) THEN 0 ELSE v1 - v2,
                            WrappingSub(v1, v2), rest, tk)
               [] word.name = Star ->
                    Checked(MulOverflows(v1, v2),
                            IF MulOverflows(v1, v2) THEN 0 ELSE v1 * v2,
                            WrappingMul(v1, v2), rest, tk)
               [] word.name = Slash ->
                    IF v2 = 0 \/ (v1 = MinValue /\ v2 = -1) THEN Ret("panic", rest, tk)
                    ELSE Ret("Ok", Append(rest, TruncDiv(v1, v2)), tk)
               [] OTHER -> Ret("panic", rest, tk)

\* do_arithmetic looking at the divisor before it pops: the operands stay.
do_arithmetic_restores(word, st, tk) ==
    IF Len(st) < 2 THEN Ret("StackUnderflow", st, tk)
    ELSE LET v2 == st[Len(st)]
             v1 == st[Len(st) - 1]
             rest == Pop(Pop(st))
         IN  CASE word.name = Plus ->
                    Checked(AddOverflows(v1, v2),
                            IF AddOverflows(v1, v2) THEN 0 ELSE v1 + v2,
                            WrappingAdd(v1, v2), rest, tk)
               [] word.name = Minus ->
                    Checked(SubOverflows(v1, v2),
                            IF SubOverflows(v1, v2) THEN 0 ELSE v1 - v2,
                            WrappingSub(v1, v2), rest, tk)
               [] word.name = Star ->
                    Checked(MulOverflows(v1, v2),
                            IF MulOverflows(v1, v2) THEN 0 ELSE v1 * v2,
                            WrappingMul(v1, v2), rest, tk)
               [] word.name = Slash ->
                    IF v2 = 0 THEN Ret("DivisionByZero", st, tk)
                    ELSE IF v1 = MinValue /\ v2 = -1 THEN Ret("panic", rest, tk)
                    ELSE Ret("Ok", Append(rest, TruncDiv(v1, v2)), tk)
               [] OTHER -> Ret("panic", rest, tk)

do_arithmetic(word, st, tk) ==
    IF Len(st) < 2 THEN Ret("StackUnderflow", st, tk)
    ELSE LET v2 == st[Len(st)]
             v1 == st[Len(st) - 1]
             rest == Pop(Pop(st))
         IN  CASE word.name = Plus ->
                    Checked(AddOverflows(v1, v2),
                            IF AddOverflows(v1, v2) THEN 0 ELSE v1 + v2,
                            WrappingAdd(v1, v2), rest, tk)
               [] word.name = Minus ->
                    Checked(SubOverflows(v1, v2),
                            IF SubOverflows(v1, v2) THEN 0 ELSE v1 - v2,
                            WrappingSub(v1, v2), rest, tk)
               [] word.name = Star ->
                    Checked(MulOverflows(v1, v2),
                            IF MulOverflows(v1, v2) THEN 0 ELSE v1 * v2,
                            WrappingMul(v1, v2), rest, tk)
               [] word.name = Slash ->
                    IF v2 = 0 THEN Ret("DivisionByZero", rest, tk)
                    ELSE IF v1 = MinValue /\ v2 = -1 THEN Ret("panic", rest, tk)
                    ELSE Ret("Ok", Append(rest, TruncDiv(v1, v2)), tk)
               [] OTHER -> Ret("panic", rest, tk)

\* do_dup asking for two values.
do_dup_needs_two(word, st, tk) ==
    IF Len(st) < 2 THEN Ret("StackUnderflow", st, tk)
    ELSE Ret("Ok", Append(st, st[Len(st)]), tk)

do_dup(word, st, tk) ==
    IF Len(st) < 1 THEN Ret("StackUnderflow", st, tk)
    ELSE Ret("Ok", Append(st, st[Len(st)]), tk)

do_drop(word, st, tk) ==
    IF Len(st) < 1 THEN Ret("StackUnderflow", st, tk)
    ELSE Ret("Ok", Pop(st), tk)

do_swap(word, st, tk) ==
    IF Len(st) < 2 THEN Ret("StackUnderflow", st, tk)
    ELSE LET v1 == st[Len(st)]
             v2 == st[Len(st) - 1]
         IN  Ret("Ok", Append(Append(Pop(Pop(st)), v1), v2), tk)

\* do_over copying the top value instead of the one below it.
do_over_copies_top(word, st, tk) ==
    IF Len(st) < 2 THEN Ret("StackUnderflow", st, tk)
    ELSE Ret("Ok", Append(st, st[Len(st)]), tk)

do_over(word, st, tk) ==
    IF Len(st) < 2 THEN Ret("StackUnderflow", st, tk)
    ELSE Ret("Ok", Append(st, st[Len(st) - 1]), tk)

RECURSIVE PushFrontRev(_, _)
\* The loop of do_exec: data's tokens, last first, each pushed at the front.
PushFrontRev(data, tk) ==
    IF data = <<>> THEN tk
    ELSE PushFrontRev(Pop(data), <<data[Len(data)]>> \o tk)

RECURSIVE PushFrontFwd(_, _)
\* The loop without rev(): data's tokens, first first, each pushed at the front.
PushFrontFwd(data, tk) ==
    IF data = <<>> THEN tk
    ELSE PushFrontFwd(Tail(data), <<Head(data)>> \o tk)

\* do_exec iterating over the body from its first token.
do_exec_forward(word, st, tk) == Ret("Ok", st, PushFrontFwd(word.data, tk))

do_exec(word, st, tk) == Ret("Ok", st, PushFrontRev(word.data, tk))

\* (word.exec)(&word, &mut self.stack, &mut self.tokens)
CallExec(word, st, tk) ==
    CASE word.exec = "do_arithmetic" -> do_arithmetic(word, st, tk)
      [] word.exec = "do_dup" -> do_dup(word, st, tk)
      [] word.exec = "do_drop" -> do_drop(word, st, tk)
      [] word.exec = "do_swap" -> do_swap(word, st, tk)
      [] word.exec = "do_over" -> do_over(word, st, tk)
      [] word.exec = "do_nop" -> do_nop(word, st, tk)
      [] word.exec = "do_exec" -> do_exec(word, st, tk)

\* ------------------------------------------------------------------ Forth

\* Option<usize>::None
None == -1

RECURSIVE LookupFrom(_, _, _)
\* The scan of lookup_word from the entry of index n - 1 downward.
LookupFrom(ws, name, n) ==
    IF n = 0 THEN None
    ELSE IF ws[n].name = name THEN n - 1
    ELSE LookupFrom(ws, name, n - 1)

RECURSIVE LookupUp(_, _, _)
\* A scan from index n - 1 upward, which returns the oldest entry of the name.
LookupUp(ws, name, n) ==
    IF n > Len(ws) THEN None
    ELSE IF ws[n].name = name THEN n - 1
    ELSE LookupUp(ws, name, n + 1)

lookup_word_oldest(ws, name) == LookupUp(ws, name, 1)

lookup_word(ws, name) == LookupFrom(ws, name, Len(ws))

\* compile and interp return [res, stack, tokens, words].
Out(res, st, tk, ws) == [res |-> res, stack |-> st, tokens |-> tk, words |-> ws]

RECURSIVE CompileLoop(_, _, _, _, _)

\* The loop deferring a body word that has no entry: the Word token is stored.
CompileLoop_defers(word_name, word_tokens, st, tk, ws) ==
    IF tk = <<>> THEN Out("InvalidWord", st, tk, ws)
    ELSE LET token == Head(tk)
             rest == Tail(tk)
         IN  IF token.kind = "Word" /\ token.name = Semicolon
             THEN Out("Ok", st, rest, Append(ws, WordNewCompiled(word_name, word_tokens)))
             ELSE IF token.kind = "Word"
             THEN LET index == lookup_word(ws, token.name)
                  IN  IF index # None
                      THEN CompileLoop(word_name, Append(word_tokens, WordIndex(index)),
                                       st, rest, ws)
                      ELSE CompileLoop(word_name, Append(word_tokens, token), st, rest, ws)
             ELSE CompileLoop(word_name, Append(word_tokens, token), st, rest, ws)

\* The loop storing what it has read when the queue runs out.
CompileLoop_keeps_partial(word_name, word_tokens, st, tk, ws) ==
    IF tk = <<>>
    THEN Out("InvalidWord", st, tk, Append(ws, WordNewCompiled(word_name, word_tokens)))
    ELSE LET token == Head(tk)
             rest == Tail(tk)
         IN  IF token.kind = "Word" /\ token.name = Semicolon
             THEN Out("Ok", st, rest, Append(ws, WordNewCompiled(word_name, word_tokens)))
             ELSE IF token.kind = "Word"
             THEN LET index == lookup_word(ws, token.name)
                  IN  IF index # None
                      THEN CompileLoop(word_name, Append(word_tokens, WordIndex(index)),
                                       st, rest, ws)
                      ELSE Out("InvalidWord", st, rest, ws)
             ELSE CompileLoop(word_name, Append(word_tokens, token), st, rest, ws)

\* The loop overwriting the entry the name already has, if it has one.
CompileLoop_replaces(word_name, word_tokens, st, tk, ws) ==
    IF tk = <<>> THEN Out("InvalidWord", st, tk, ws)
    ELSE LET token == Head(tk)
             rest == Tail(tk)
         IN  IF token.kind = "Word" /\ token.name = Semicolon
             THEN LET old == lookup_word(ws, word_name)
                      new == WordNewCompiled(word_name, word_tokens)
                  IN  Out("Ok", st, rest,
                          IF old = None THEN Append(ws, new)
                          ELSE [ws EXCEPT ![old + 1] = new])
             ELSE IF token.kind = "Word"
             THEN LET index == lookup_word(ws, token.name)
                  IN  IF index # None
                      THEN CompileLoop(word_name, Append(word_tokens, WordIndex(index)),
                                       st, rest, ws)
                      ELSE Out("InvalidWord", st, rest, ws)
             ELSE CompileLoop(word_name, Append(word_tokens, token), st, rest, ws)

\* The loop resolving the name being defined to the index its entry will have.
CompileLoop_binds_self(word_name, word_tokens, st, tk, ws) ==
    IF tk = <<>> THEN Out("InvalidWord", st, tk, ws)
    ELSE LET token == Head(tk)
             rest == Tail(tk)
         IN  IF token.kind = "Word" /\ token.name = Semicolon
             THEN Out("Ok", st, rest, Append(ws, WordNewCompiled(word_name, word_tokens)))
             ELSE IF token.kind = "Word"
             THEN LET index == IF token.name = word_name THEN Len(ws)
                               ELSE lookup_word(ws, token.name)
                  IN  IF index # None
                      THEN CompileLoop(word_name, Append(word_tokens, WordIndex(index)),
                                       st, rest, ws)
                      ELSE Out("InvalidWord", st, rest, ws)
             ELSE CompileLoop(word_name, Append(word_tokens, token), st, rest, ws)

\* The loop storing the index after the one lookup_word returned.
CompileLoop_next_index(word_name, word_tokens, st, tk, ws) ==
    IF tk = <<>> THEN Out("InvalidWord", st, tk, ws)
    ELSE LET token == Head(tk)
             rest == Tail(tk)
         IN  IF token.kind = "Word" /\ token.name = Semicolon
             THEN Out("Ok", st, rest, Append(ws, WordNewCompiled(word_name, word_tokens)))
             ELSE IF token.kind = "Word"
             THEN LET index == lookup_word(ws, token.name)
                  IN  IF index # None
                      THEN CompileLoop(word_name, Append(word_tokens, WordIndex(index + 1)),
                                       st, rest, ws)
                      ELSE Out("InvalidWord", st, rest, ws)
             ELSE CompileLoop(word_name, Append(word_tokens, token), st, rest, ws)

\* The loop pushing a Number of the body on the stack as well as storing it.
CompileLoop_runs_numbers(word_name, word_tokens, st, tk, ws) ==
    IF tk = <<>> THEN Out("InvalidWord", st, tk, ws)
    ELSE LET token == Head(tk)
             rest == Tail(tk)
         IN  IF token.kind = "Word" /\ token.name = Semicolon
             THEN Out("Ok", st, rest, Append(ws, WordNewCompiled(word_name, word_tokens)))
             ELSE IF token.kind = "Word"
             THEN LET index == lookup_word(ws, token.name)
                  IN  IF index # None
                      THEN CompileLoop(word_name, Append(word_tokens, WordIndex(index)),
                                       st, rest, ws)
                      ELSE Out("InvalidWord", st, rest, ws)
             ELSE CompileLoop(word_name, Append(word_tokens, token),
                              IF token.kind = "Number" THEN Append(st, token.value) ELSE st,
                              rest, ws)

\* The while loop of compile.
CompileLoop(word_name, word_tokens, st, tk, ws) ==
    IF tk = <<>> THEN Out("InvalidWord", st, tk, ws)
    ELSE LET token == Head(tk)
             rest == Tail(tk)
         IN  IF token.kind = "Word" /\ token.name = Semicolon
             THEN Out("Ok", st, rest, Append(ws, WordNewCompiled(word_name, word_tokens)))
             ELSE IF token.kind = "Word"
             THEN LET index == lookup_word(ws, token.name)
                  IN  IF index # None
                      THEN CompileLoop(word_name, Append(word_tokens, WordIndex(index)),
                                       st, rest, ws)
                      ELSE Out("InvalidWord", st, rest, ws)
             ELSE CompileLoop(word_name, Append(word_tokens, token), st, rest, ws)

compile(st, tk, ws) ==
    IF tk # <<>> /\ Head(tk).kind = "Word"
    THEN CompileLoop(Head(tk).name, <<>>, st, Tail(tk), ws)
    ELSE Out("InvalidWord", st, IF tk = <<>> THEN tk ELSE Tail(tk), ws)

interp(st, tk, ws) ==
    LET compile_index == lookup_word(ws, Colon)
    IN  IF compile_index = None \/ tk = <<>> THEN Out("panic", st, tk, ws)
        ELSE LET t == Head(tk)
                 rest == Tail(tk)
             IN  CASE t.kind = "Word" ->
                        LET word_index == lookup_word(ws, t.name)
                        IN  IF word_index # None
                            THEN Out("Ok", st, <<WordIndex(word_index)>> \o rest, ws)
                            ELSE Out("UnknownWord", st, rest, ws)
                   [] t.kind = "WordIndex" /\ t.index = compile_index ->
                        compile(st, rest, ws)
                   [] t.kind = "WordIndex" /\ t.index # compile_index ->
                        IF t.index >= Len(ws) THEN Out("panic", st, rest, ws)
                        ELSE LET r == CallExec(ws[t.index + 1], st, rest)
                             IN  Out(r.res, r.stack, r.tokens, ws)
                   [] t.kind = "Number" ->
                        Out("Ok", Append(st, t.value), rest, ws)

\* ------------------------------------------------------------------ inputs

\* The longest input, in phrases of Phrases and in fragments of ArithFrags.
MaxPhrases == 3

MaxFrags == 3

\* Phrases about definitions: well-formed and malformed colon-definitions,
\* shadowing of a user word, of a built-in and of `:`, invocations, stack
\* words on what the invocations left, and a literal too large for 32 bits.
Phrases ==
    { <<":", " ", "a", " ", "d", "u", "p", " ", ";">>,
      <<":", " ", "a", " ", ":", " ", "D", "U", "P", " ", ";">>,
      <<":", "\t", "a", " ", "a", " ", "2", "\n", ";">>,
      <<":", " ", ":", " ", ";">>,
      <<":", " ", "d", "u", "p", " ", "2", " ", ";">>,
      <<"a">>,
      <<"7", " ", " ", "A", " ", "1">>,
      <<"d", "u", "p">>,
      <<":">>,
      <<";">>,
      <<"+">>,
      <<"s", "w", "a", "p", " ", "o", "v", "e", "r">>,
      <<"9", "9", "9", "9", "9", "9", "9", "9", "9", "9", "9">> }

\* Fragments about arithmetic and the stack: numerals, among them both ends of
\* the i32 range, and the eight stack-consuming built-ins.
ArithFrags ==
    { <<"0">>, <<"1">>, <<"-", "1">>, <<"2">>, <<"7">>, <<"-", "7">>,
      <<"2", "1", "4", "7", "4", "8", "3", "6", "4", "7">>,
      <<"-", "2", "1", "4", "7", "4", "8", "3", "6", "4", "8">>,
      <<"+">>, <<"-">>, <<"*">>, <<"/">>,
      <<"d", "u", "p">>, <<"D", "r", "o", "p">>, <<"s", "w", "a", "p">>,
      <<"O", "V", "E", "R">> }

RECURSIVE Texts(_, _)
\* The texts made of at most n elements of P, joined by single spaces.
Texts(P, n) ==
    IF n = 0 THEN {<<>>}
    ELSE LET shorter == Texts(P, n - 1)
         IN  shorter \cup {IF t = <<>> THEN p ELSE t \o <<" ">> \o p : t \in shorter, p \in P}

Inputs == Texts(Phrases, MaxPhrases) \cup Texts(ArithFrags, MaxFrags)

\* ------------------------------------------------------------------ actions

NoPre == [valid |-> FALSE, stack |-> <<>>, tokens |-> <<>>, words |-> <<>>]

\* Before the call of interpret(); the session is as Forth::new() builds it.
Init ==
    /\ stack = <<>>
    /\ tokens = <<>>
    /\ words = NewWords
    /\ pc = "new"
    /\ result = "none"
    /\ overflow_checks \in BOOLEAN
    /\ input = <<>>
    /\ pre = NoPre
    /\ evals = 0

\* eval keeping what an earlier call left in the queue, the new tokens behind.
Eval_resumes(text) ==
    /\ pc \in {"new", "idle"}
    /\ tokens' = tokens \o parse(text)
    /\ pc' = "running"
    /\ result' = "none"
    /\ input' = text
    /\ pre' = [valid |-> FALSE, stack |-> stack, tokens |-> tokens, words |-> words]
    /\ evals' = evals + 1
    /\ UNCHANGED <<stack, words, overflow_checks>>

\* eval, up to its loop: the queue becomes the tokens of the text.  pre keeps,
\* marked as no step, the session as the call found it.
Eval(text) ==
    /\ pc \in {"new", "idle"}
    /\ tokens' = parse(text)
    /\ pc' = "running"
    /\ result' = "none"
    /\ input' = text
    /\ pre' = [valid |-> FALSE, stack |-> stack, tokens |-> tokens, words |-> words]
    /\ evals' = evals + 1
    /\ UNCHANGED <<stack, words, overflow_checks>>

\* interpret(code): a fresh session, and its eval of code up to the loop.
Interpret(code) ==
    /\ pc = "new"
    /\ stack' = <<>>
    /\ words' = NewWords
    /\ tokens' = parse(code)
    /\ pc' = "running"
    /\ result' = "none"
    /\ input' = code
    /\ pre' = NoPre
    /\ evals' = evals + 1
    /\ UNCHANGED overflow_checks

\* The loop going on after a step has returned an error.
Interp_goes_on ==
    /\ pc = "running"
    /\ tokens # <<>>
    /\ LET r == interp(stack, tokens, words)
       IN  /\ stack' = r.stack
           /\ tokens' = r.tokens
           /\ words' = r.words
           /\ pc' = IF r.res = "panic" THEN "aborted" ELSE "running"
           /\ result' = IF r.res \in Errors THEN r.res ELSE result
    /\ pre' = [valid |-> TRUE, stack |-> stack, tokens |-> tokens, words |-> words]
    /\ UNCHANGED <<overflow_checks, input, evals>>

\* One turn of eval's loop: self.interp()?, an error ending the eval and a
\* panic the process.
Interp ==
    /\ pc = "running"
    /\ tokens # <<>>
    /\ LET r == interp(stack, tokens, words)
       IN  /\ stack' = r.stack
           /\ tokens' = r.tokens
           /\ words' = r.words
           /\ pc' = IF r.res = "Ok" THEN "running"
                    ELSE IF r.res = "panic" THEN "aborted" ELSE "idle"
           /\ result' = IF r.res \in Errors THEN r.res ELSE result
    /\ pre' = [valid |-> TRUE, stack |-> stack, tokens |-> tokens, words |-> words]
    /\ UNCHANGED <<overflow_checks, input, evals>>

\* The loop of eval ends on an empty queue, and eval returns Ok(()).
EvalDone ==
    /\ pc = "running"
    /\ tokens = <<>>
    /\ pc' = "idle"
    /\ result' = "Ok"
    /\ UNCHANGED <<stack, tokens, words, overflow_checks, input, pre, evals>>

\* A call of interpret() on some input.
Call ==
    /\ pc = "new"
    /\ \E code \in Inputs : Interpret(code)

Next ==
    \/ Call
    \/ Interp
    \/ EvalDone

Spec == Init /\ [][Next]_vars

\* ------------------------------------------------------------------ session
\* A session of the library: Forth::new(), then eval calls one after another
\* on the same Forth.

\* The most eval calls made on one session.
MaxEvals == 3

\* The texts of the calls: pushes, a division by zero, a failure that leaves
\* tokens in the queue, definitions (of a new word, shadowing a built-in and a
\* user word by bodies that mention their own names, of `:`, of a word that
\* runs the compiler), invocations, an unknown word, a division that aborts
\* the process, and the empty text.
SessionTexts ==
    { <<"7", " ", "2">>,
      <<"0", " ", "/">>,
      <<"+", " ", "1", " ", "d", "u", "p">>,
      <<":", " ", "a", " ", "d", "u", "p", " ", ";">>,
      <<"a">>,
      <<":", " ", "d", "u", "p", " ", "d", "u", "p", " ", ";">>,
      <<":", " ", "a", " ", "d", "u", "p", " ", "d", "r", "o", "p", " ", "a", " ", ";">>,
      <<":", " ", ":", " ", ";">>,
      <<":", " ", "b", " ", ":", " ", ";">>,
      <<"b", " ", "e", " ", "7", " ", ";">>,
      <<"-", "2", "1", "4", "7", "4", "8", "3", "6", "4", "8", " ", "-", "1", " ", "/">>,
      <<"7", " ", "b", "a", "d", " ", "3">>,
      <<>> }

\* A call of eval on the session.
CallEval ==
    /\ pc \in {"new", "idle"}
    /\ evals < MaxEvals
    /\ \E text \in SessionTexts : Eval(text)

SessionNext ==
    \/ CallEval
    \/ Interp
    \/ EvalDone

SessionSpec == Init /\ [][SessionNext]_vars

\* eval's loop is sequential code: a call that has a step to take takes it.
LiveSpec == SessionSpec /\ WF_vars(Interp) /\ WF_vars(EvalDone)

\* ------------------------------------------------------------------ steps
\* What the last interp step was, read from the history variable pre.

\* The token the step popped.
StepToken == Head(pre.tokens)

\* The step returned Ok(()).
StepOk == pre.valid /\ pc # "aborted" /\ result \notin Errors

\* The step returned Err(e), which ended the eval.
StepFailed(e) == pre.valid /\ pc = "idle" /\ result = e

\* The highest index of an entry of ws named name, or None.
Latest(ws, name) ==
    LET S == {k \in 1..Len(ws) : ws[k].name = name}
    IN  IF S = {} THEN None ELSE (CHOOSE k \in S : \A j \in S : j <= k) - 1

\* The step dispatched a WordIndex to the behaviour of its entry.
ExecStep ==
    /\ pre.valid
    /\ StepToken.kind = "WordIndex"
    /\ StepToken.index # Latest(pre.words, Colon)

\* The entry the step dispatched to.
StepWord == pre.words[StepToken.index + 1]

\* The step ran the built-in arithmetic word named op.
ArithStep(op) ==
    /\ ExecStep
    /\ StepToken.index < 4
    /\ StepWord.name = op

\* The operands the step found: b on top, a below it, and the values below.
OperandB == pre.stack[Len(pre.stack)]

OperandA == pre.stack[Len(pre.stack) - 1]

BelowOperands == SubSeq(pre.stack, 1, Len(pre.stack) - 2)

\* ------------------------------------------------------------------ C1

\* q is the integer quotient of a by b truncated toward zero: a = q * b + r
\* with r of the sign of a and smaller than b in absolute value.
IsTruncQuotient(a, b, q) ==
    /\ ~MulOverflows(q, b)
    /\ ~SubOverflows(a, q * b)
    /\ LET r == a - q * b
       IN  /\ a >= 0 => r >= 0
           /\ a <= 0 => r <= 0
           /\ IF b > 0 THEN -b < r /\ r < b ELSE b < r /\ b < -r

\* v is the integer a OP b.
IsIntegerResult(op, a, b, v) ==
    CASE op = Plus -> ~AddOverflows(a, b) /\ v = a + b
      [] op = Minus -> ~SubOverflows(a, b) /\ v = a - b
      [] op = Star -> ~MulOverflows(a, b) /\ v = a * b
      [] op = Slash -> IsTruncQuotient(a, b, v)

\* C1: for all 32-bit a and b and every OP of + - * / (b # 0 for /), the step
\* that runs OP on a stack ending in a, b succeeds and replaces the two
\* operands by the one value a OP b of integer arithmetic, / truncating
\* toward zero; the values below are untouched.
C1_ArithmeticResult ==
    \A op \in {Plus, Minus, Star, Slash} :
        (ArithStep(op) /\ Len(pre.stack) >= 2 /\ (op = Slash => OperandB # 0))
        => /\ StepOk
           /\ Len(stack) = Len(pre.stack) - 1
           /\ Pop(stack) = BelowOperands
           /\ IsIntegerResult(op, OperandA, OperandB, stack[Len(stack)])

\* ------------------------------------------------------------------ C2

\* C2: no evaluator step aborts the process: every step returns Ok or one of
\* the four errors.
C2_NoAbort == pc # "aborted"

\* ------------------------------------------------------------------ C3

\* The step ran the built-in / on at least two values with a zero on top.
DivideByZeroStep ==
    /\ ArithStep(Slash)
    /\ Len(pre.stack) >= 2
    /\ OperandB = 0

\* C3: / on at least two values with a zero on top fails with DivisionByZero
\* whatever the left operand is, without dividing (the process does not
\* abort) and without pushing a result.
C3_DivisionByZero ==
    DivideByZeroStep
    => /\ StepFailed("DivisionByZero")
       /\ Len(stack) < Len(pre.stack)
       /\ stack = SubSeq(pre.stack, 1, Len(stack))

\* A division by zero has happened, with the smallest value as left operand.
C3_Witness ==
    /\ DivideByZeroStep
    /\ OperandA = MinValue
    /\ result = "DivisionByZero"

\* ------------------------------------------------------------------ C4

\* The number of values a stack-consuming built-in requires.
Required(name) == IF name \in {Dup, Drop} THEN 1 ELSE 2

\* The step ran one of the eight stack-consuming built-ins.
BuiltinStep ==
    /\ ExecStep
    /\ StepToken.index < 8

\* C4: a stack-consuming built-in fails with StackUnderflow exactly when the
\* stack holds fewer values than it requires (2 for + - * / SWAP OVER, 1 for
\* DUP DROP), and then the stack is as it was before the step.
C4_StackUnderflow ==
    BuiltinStep
    => /\ StepFailed("StackUnderflow") <=> Len(pre.stack) < Required(StepWord.name)
       /\ StepFailed("StackUnderflow") => stack = pre.stack

\* A built-in that requires two values has failed on a stack of one value.
C4_Witness ==
    /\ BuiltinStep
    /\ Required(StepWord.name) = 2
    /\ Len(pre.stack) = 1
    /\ result = "StackUnderflow"
    /\ stack = pre.stack

\* ------------------------------------------------------------------ C5

\* The elements of a sequence.
Range(q) == {q[i] : i \in 1..Len(q)}

\* q is what is left of p after some of its front tokens were popped.
IsProperSuffix(q, p) ==
    /\ Len(q) < Len(p)
    /\ q = SubSeq(p, Len(p) - Len(q) + 1, Len(p))

\* C5: once a step has returned an error the eval has returned that error:
\* the loop runs no further step, the tokens behind the failing step stay
\* unexecuted in the queue, and the stack and the word table are those the
\* earlier steps built (the failing step itself adds no word and at most
\* pops the two operands of a division by zero): nothing is rolled back.
C5_ErrorHalts ==
    result \in Errors
    => /\ pc = "idle"
       /\ pre.valid
       /\ result = interp(pre.stack, pre.tokens, pre.words).res
       /\ IsProperSuffix(tokens, pre.tokens)
       /\ words = pre.words
       /\ \/ stack = pre.stack
          \/ result = "DivisionByZero" /\ stack = Pop(Pop(pre.stack))

\* An eval has failed after a push and a definition, with a token unexecuted.
C5_Witness ==
    /\ result \in Errors
    /\ stack # <<>>
    /\ Len(words) > Len(NewWords)
    /\ tokens # <<>>

\* ------------------------------------------------------------------ C6

\* The names to look up in a state: those of the table and those in the queue.
NamesInState ==
    {words[k].name : k \in 1..Len(words)}
        \cup {t.name : t \in {u \in Range(tokens) : u.kind = "Word"}}

\* C6: lookup returns the highest index whose entry has the name, or nothing
\* when no entry has it, and a step that resolves a name puts that index at
\* the front of the queue: an older entry of the name is never returned.
C6_LookupLatest ==
    /\ \A name \in NamesInState : lookup_word(words, name) = Latest(words, name)
    /\ (pre.valid /\ StepToken.kind = "Word" /\ Latest(pre.words, StepToken.name) # None)
       => /\ StepOk
          /\ tokens = <<WordIndex(Latest(pre.words, StepToken.name))>> \o Tail(pre.tokens)

\* A name with two entries has been resolved, to the later one.
C6_Witness ==
    /\ pre.valid
    /\ StepToken.kind = "Word"
    /\ Cardinality({k \in 1..Len(pre.words) : pre.words[k].name = StepToken.name}) >= 2
    /\ tokens # <<>>
    /\ Head(tokens) = WordIndex(Latest(pre.words, StepToken.name))

\* ------------------------------------------------------------------ C7

\* The indices the compiled bodies of ws refer to.
Referenced(ws) ==
    UNION {{t.index : t \in {u \in Range(ws[k].data) : u.kind = "WordIndex"}} : k \in 1..Len(ws)}

\* What a step does with WordIndex(i): it runs the compiler when i is the
\* index `:` has, and the behaviour of the entry otherwise.
Behaviour(ws, i) == IF i = Latest(ws, Colon) THEN <<"compile">> ELSE <<"exec", ws[i + 1]>>

\* C7: no step changes what a WordIndex stored in a compiled body does, so a
\* redefinition never changes an earlier compiled body; for every referenced
\* word.
C7_EarlyBinding ==
    [][\A i \in Referenced(words) : Behaviour(words', i) = Behaviour(words, i)]_vars

\* ------------------------------------------------------------------ C8

\* The step ran the compiler.
CompileStep ==
    /\ pre.valid
    /\ StepToken.kind = "WordIndex"
    /\ StepToken.index = Latest(pre.words, Colon)

\* The tokens behind the `:` of the step.
Definition == Tail(pre.tokens)

NamePresent == Definition # <<>> /\ Definition[1].kind = "Word"

\* The place of the first `;` behind the name, or 0.
SemicolonAt ==
    LET S == {j \in 2..Len(Definition) :
                 Definition[j].kind = "Word" /\ Definition[j].name = Semicolon}
    IN  IF S = {} THEN 0 ELSE CHOOSE j \in S : \A k \in S : j <= k

\* The place of the last body token.
BodyEnd == IF SemicolonAt = 0 THEN Len(Definition) ELSE SemicolonAt - 1

\* The body has a Word token with no entry in the table.
Unresolved ==
    \E j \in 2..BodyEnd :
        Definition[j].kind = "Word" /\ Latest(pre.words, Definition[j].name) = None

\* A body token as it is stored.
Resolved(t) == IF t.kind = "Word" THEN WordIndex(Latest(pre.words, t.name)) ELSE t

\* C8: the compiler fails, with InvalidWord, exactly when the token behind `:`
\* is missing or no Word, a body Word before the first `;` has no entry, or
\* there is no `;`; otherwise it succeeds and appends one entry, named by the
\* name token, whose body is the tokens before the `;` (each Word as the
\* index it has), and the queue is what follows the `;`.
C8_CompileOutcome ==
    CompileStep
    => IF ~NamePresent \/ Unresolved \/ SemicolonAt = 0
       THEN StepFailed("InvalidWord")
       ELSE /\ StepOk
            /\ words = Append(pre.words,
                   [name |-> Definition[1].name,
                    data |-> [j \in 1..(SemicolonAt - 2) |-> Resolved(Definition[j + 1])],
                    exec |-> "do_exec"])
            /\ tokens = SubSeq(Definition, SemicolonAt + 1, Len(Definition))

\* A definition whose body mentions its own, not yet defined, name was rejected.
C8_Witness ==
    /\ CompileStep
    /\ NamePresent
    /\ SemicolonAt # 0
    /\ \E j \in 2..BodyEnd :
           /\ Definition[j] = Definition[1]
           /\ Latest(pre.words, Definition[j].name) = None
    /\ result = "InvalidWord"

\* A definition with a body of a word and a number was compiled.
C8_WitnessSuccess ==
    /\ CompileStep
    /\ StepOk
    /\ Len(words) = Len(pre.words) + 1
    /\ Len(words[Len(words)].data) = 2

\* A word that runs the compiler in its body found a WordIndex as the name.
C8_WitnessIndexName ==
    /\ CompileStep
    /\ Definition # <<>>
    /\ Definition[1].kind = "WordIndex"
    /\ result = "InvalidWord"

\* ------------------------------------------------------------------ C9

\* The definition of the step has a name, only body words with entries, and no `;`.
Unterminated == NamePresent /\ ~Unresolved /\ SemicolonAt = 0

\* C9: a colon-definition that fails leaves the word table as the step found
\* it, and an unterminated definition leaves the queue empty.
C9_FailedDefinition ==
    (CompileStep /\ StepFailed("InvalidWord"))
    => /\ words = pre.words
       /\ Unterminated => tokens = <<>>

\* An unterminated definition with a body has failed.
C9_Witness ==
    /\ CompileStep
    /\ Unterminated
    /\ Len(Definition) >= 2
    /\ result = "InvalidWord"
    /\ tokens = <<>>
    /\ words = pre.words

\* ------------------------------------------------------------------ C10

\* The fragments of the input text.
Fragments == Split(input, <<>>)

IsDigitString(f) == f # <<>> /\ \A i \in 1..Len(f) : f[i] \in Digits

\* A sign, if any, then digits only.
IsNumeral(f) ==
    \/ IsDigitString(f)
    \/ Len(f) > 1 /\ f[1] \in {"+", "-"} /\ IsDigitString(Tail(f))

\* A numeral of more than ten digits, the first not 0: beyond 32 bits.
TooLarge(f) == IsDigitString(f) /\ Len(f) > 10 /\ f[1] # "0"

\* The fragment cannot be parsed as an i32 (TooLarge is one way to be out of
\* range, not the only one).
FailsToParse(f) == ~IsNumeral(f) \/ TooLarge(f)

\* C10 as stated: when the eval has ended and went past a fragment too large
\* for 32 bits whose name has no entry, it reported UnknownWord.
C10_UnknownWordEverywhere ==
    (/\ pc = "idle"
     /\ \E f \in Range(Fragments) :
            /\ TooLarge(f)
            /\ Latest(words, ToUppercase(f)) = None
            /\ Word(ToUppercase(f)) \notin Range(tokens))
    => result = "UnknownWord"

\* C10 as amended: a fragment that fails integer parsing is tokenized as the
\* Word of its upper-cased text; a Word that has no entry when a step pops it
\* from the queue fails the eval with UnknownWord; one met by the compiler in
\* a body, and the name of a definition without `;`, fail it with InvalidWord.
C10_MalformedLiteral ==
    /\ (pc = "running" /\ ~pre.valid)
       => /\ Len(tokens) = Len(Fragments)
          /\ \A i \in 1..Len(Fragments) :
                 FailsToParse(Fragments[i]) => tokens[i] = Word(ToUppercase(Fragments[i]))
    /\ (pre.valid /\ StepToken.kind = "Word" /\ Latest(pre.words, StepToken.name) = None)
       => StepFailed("UnknownWord")
    /\ (CompileStep /\ NamePresent /\ (Unresolved \/ SemicolonAt = 0))
       => StepFailed("InvalidWord")

\* A literal too large for 32 bits, met in the body of a definition, has
\* failed the eval with InvalidWord.
C10_Witness ==
    /\ CompileStep
    /\ NamePresent
    /\ \E j \in 2..BodyEnd :
           /\ Definition[j].kind = "Word"
           /\ TooLarge(Definition[j].name)
           /\ Latest(pre.words, Definition[j].name) = None
    /\ result = "InvalidWord"

\* A literal too large for 32 bits, met at the top level, has failed the
\* eval with UnknownWord.
C10_WitnessTopLevel ==
    /\ pre.valid
    /\ StepToken.kind = "Word"
    /\ TooLarge(StepToken.name)
    /\ result = "UnknownWord"

\* ------------------------------------------------------------------ C11

\* C11: an eval call starts on the stack and the word table the session had
\* when it was called, whatever the call before returned, and on a queue that
\* holds the tokens of its text and nothing else; when a call has returned Ok
\* the queue is empty.
C11_SessionPersistence ==
    [][/\ (pc \in {"new", "idle"} /\ pc' = "running")
           => /\ stack' = stack
              /\ words' = words
              /\ tokens' = parse(input')
       /\ (pc' = "idle" /\ result' = "Ok") => tokens' = <<>>]_vars

\* A call has started on a session whose last call failed with tokens left:
\* it has the stack and the definitions of the calls before and none of the
\* tokens left.
C11_Witness ==
    /\ pc = "running"
    /\ ~pre.valid
    /\ evals >= 2
    /\ pre.tokens # <<>>
    /\ stack # <<>>
    /\ stack = pre.stack
    /\ Len(words) > Len(NewWords)
    /\ tokens # <<>>
    /\ Range(tokens) \cap Range(pre.tokens) = {}

\* ------------------------------------------------------------------ C12

\* The step ran the built-in stack word named name.
StackStep(name) ==
    /\ BuiltinStep
    /\ StepToken.index >= 4
    /\ StepWord.name = name

\* C12: on a stack with enough values DUP, DROP, SWAP and OVER succeed, and
\* leave s.[x,x] of s.[x], s of s.[x], s.[y,x] of s.[x,y] and s.[x,y,x] of
\* s.[x,y]: the values below the operands stay, in their order.
C12_StackWords ==
    /\ (StackStep(Dup) /\ Len(pre.stack) >= 1)
       => /\ StepOk
          /\ stack = Pop(pre.stack) \o <<OperandB, OperandB>>
    /\ (StackStep(Drop) /\ Len(pre.stack) >= 1)
       => /\ StepOk
          /\ stack = Pop(pre.stack)
    /\ (StackStep(Swap) /\ Len(pre.stack) >= 2)
       => /\ StepOk
          /\ stack = BelowOperands \o <<OperandB, OperandA>>
    /\ (StackStep(Over) /\ Len(pre.stack) >= 2)
       => /\ StepOk
          /\ stack = BelowOperands \o <<OperandA, OperandB, OperandA>>

\* OVER has run on two different operands with a value below them.
C12_Witness ==
    /\ StackStep(Over)
    /\ BelowOperands # <<>>
    /\ OperandA # OperandB
    /\ StepOk
    /\ stack = pre.stack \o <<OperandA>>

\* SWAP has run on two different operands with a value below them.
C12_WitnessSwap ==
    /\ StackStep(Swap)
    /\ BelowOperands # <<>>
    /\ OperandA # OperandB
    /\ StepOk
    /\ Len(stack) = Len(pre.stack)

\* ------------------------------------------------------------------ C13

\* The index of the built-in `:` entry, the last one Forth::new() pushes.
BuiltinColon == Len(NewWords) - 1

\* C13: a step that pops a WordIndex of the built-in `:` entry runs the
\* compiler: it is never dispatched to the entry's behaviour, do_nop.
C13_NopNeverRuns ==
    (pre.valid /\ StepToken = WordIndex(BuiltinColon)) => ~ExecStep

\* ------------------------------------------------------------------ C14

\* The step dispatched a WordIndex to a user-defined word.
UserStep ==
    /\ ExecStep
    /\ StepWord.exec = "do_exec"

\* C14: a step that executes a user-defined word succeeds and leaves in the
\* queue the word's stored body, first body token at the front, followed by
\* the tokens that were pending behind the invocation, in their order; so
\* every body token is popped before any pending one.
C14_BodyInPlace ==
    UserStep
    => /\ StepOk
       /\ Len(tokens) = Len(StepWord.data) + Len(pre.tokens) - 1
       /\ \A j \in 1..Len(StepWord.data) : tokens[j] = StepWord.data[j]
       /\ \A j \in 2..Len(pre.tokens) : tokens[Len(StepWord.data) + j - 1] = pre.tokens[j]

\* A word with a body of two different tokens was executed with a token pending.
C14_Witness ==
    /\ UserStep
    /\ Len(StepWord.data) = 2
    /\ StepWord.data[1] # StepWord.data[2]
    /\ Len(pre.tokens) >= 2
    /\ tokens = StepWord.data \o Tail(pre.tokens)

\* ------------------------------------------------------------------ C15

\* The step from this state is a step of eval's loop that runs the compiler
\* and returns Ok(()).
CompilesOk ==
    /\ pc = "running"
    /\ tokens # <<>>
    /\ Head(tokens) = WordIndex(Latest(words, Colon))
    /\ pc' = "running"

\* C15: no step and no eval call shortens the word table or changes an entry
\* it has; the table grows only by one entry, and only in a step that runs
\* the compiler and succeeds; the nine entries of Forth::new() stay the first
\* nine.
C15_AppendOnly ==
    [][/\ Len(words') >= Len(words)
       /\ \A k \in 1..Len(words) : words'[k] = words[k]
       /\ Len(words') # Len(words) => (Len(words') = Len(words) + 1 /\ CompilesOk)
       /\ SubSeq(words', 1, Len(NewWords)) = NewWords]_vars

\* In a later call of the session a definition has shadowed an entry, which
\* is still in the table.
C15_Witness ==
    /\ CompileStep
    /\ StepOk
    /\ evals >= 2
    /\ Len(words) = Len(pre.words) + 1
    /\ \E k \in 1..Len(pre.words) :
           /\ words[k].name = words[Len(words)].name
           /\ words[k] = pre.words[k]
           /\ words[k] # words[Len(words)]

\* ------------------------------------------------------------------ C16

\* C16: every WordIndex in the queue is an index of the word table; every
\* WordIndex in the body of the entry of index n is smaller than n; and no
\* body holds a Word token.
C16_WellFormedIndices ==
    /\ \A t \in Range(tokens) :
           t.kind = "WordIndex" => (0 <= t.index /\ t.index < Len(words))
    /\ \A k \in 1..Len(words) : \A t \in Range(words[k].data) :
           /\ t.kind # "Word"
           /\ t.kind = "WordIndex" => (0 <= t.index /\ t.index < k - 1)

\* A word that shadows a user word by a body that mentions its own name has
\* been expanded: the queue holds the index of the entry it shadows.
C16_Witness ==
    \E k \in (Len(NewWords) + 1)..Len(words) :
        \E t \in Range(words[k].data) :
            /\ t.kind = "WordIndex"
            /\ t.index >= Len(NewWords)
            /\ words[t.index + 1].name = words[k].name
            /\ pre.valid
            /\ StepToken = WordIndex(k - 1)
            /\ t \in Range(tokens)

\* ------------------------------------------------------------------ C17

C17_WitnessColon ==
    /\ pc = "idle"
    /\ pre.valid
    /\ Latest(words, Colon) # BuiltinColon
    /\ Colon \notin {t.name : t \in {u \in Range(parse(input)) : u.kind = "Word"}}

\* ------------------------------------------------------------------ C18

\* C18: when / fails with DivisionByZero the eval has returned and the stack
\* it leaves is the stack the step found without its top two values; a step
\* that fails with StackUnderflow leaves the stack it found.
C18_DivisionPopsOperands ==
    /\ (ArithStep(Slash) /\ StepFailed("DivisionByZero"))
       => /\ Len(pre.stack) >= 2
          /\ stack = BelowOperands
          /\ pc = "idle"
    /\ (BuiltinStep /\ StepFailed("StackUnderflow"))
       => /\ stack = pre.stack
          /\ pc = "idle"

\* A division by zero has failed on a stack of three values, pushed by two
\* calls: the eval leaves the bottom one.
C18_Witness ==
    /\ ArithStep(Slash)
    /\ StepFailed("DivisionByZero")
    /\ Len(pre.stack) = 3
    /\ stack = <<pre.stack[1]>>
    /\ evals >= 2

\* ------------------------------------------------------------------ C19

\* The step popped a Word token, a Number token.
WordStep == pre.valid /\ StepToken.kind = "Word"

NumberStep == pre.valid /\ StepToken.kind = "Number"

\* C19: a step that returns (Ok or an error) leaves the stack as it found it
\* when it resolves a Word, runs the compiler or expands a user-defined word;
\* leaves the word table as it found it and the queue without its front
\* token when it pushes a Number or runs one of the eight stack-consuming
\* built-ins; and, when it resolves a Word, leaves the queue with the Word's
\* index in the place of the Word and the word table unchanged.
C19_StepFrame ==
    pc # "aborted"
    => /\ (WordStep \/ CompileStep \/ UserStep) => stack = pre.stack
       /\ (NumberStep \/ BuiltinStep)
          => /\ words = pre.words
             /\ tokens = Tail(pre.tokens)
       /\ (WordStep /\ StepOk)
          => /\ Len(tokens) = Len(pre.tokens)
             /\ tokens[1] = WordIndex(Latest(pre.words, StepToken.name))
             /\ Tail(tokens) = Tail(pre.tokens)
             /\ words = pre.words

\* The compiler has stored a definition with a Number in its body, on a
\* stack that holds values.
C19_Witness ==
    /\ CompileStep
    /\ StepOk
    /\ \E t \in Range(words[Len(words)].data) : t.kind = "Number"
    /\ stack # <<>>
    /\ stack = pre.stack
    /\ tokens # Tail(pre.tokens)

\* The compiler has failed on a stack that holds values.
C19_WitnessFailed ==
    /\ CompileStep
    /\ StepFailed("InvalidWord")
    /\ stack # <<>>
    /\ stack = pre.stack

\* A built-in has failed with tokens pending.
C19_WitnessBuiltin ==
    /\ BuiltinStep
    /\ StepFailed("StackUnderflow")
    /\ tokens # <<>>
    /\ tokens = Tail(pre.tokens)
    /\ words # NewWords

====
